---- MODULE Spec2Model ----
(***************************************************************************)
(* Staged multi-result supercompilation (staged-mrsc-rust).                *)
(*                                                                         *)
(* The library is a set of pure functions over graphs of configurations.   *)
(* A client holds a world of supercompilation, a lazy graph, a lazy        *)
(* infinite graph, a list of residual graphs and a statistic; every        *)
(* action below is one call of the library's API on what the client holds. *)
(*                                                                         *)
(*   Spec    a client that drives a world (naive_mrsc, lazy_mrsc,          *)
(*           build_graph8, cl8_bad_conf, prune_graph8) and unrolls or      *)
(*           measures what it got;                                         *)
(*   SpecLG  a client that builds lazy graphs with the constructors, or    *)
(*           drives the mock world, and applies the interpreters, the      *)
(*           cleaners and the statistics to them.                          *)
(*   SpecCart a client of cartesian;                                       *)
(*   SpecFold a client of is_foldable_to of a counters world;              *)
(*   SpecLoop the loop of naive_mrsc and lazy_mrsc, one call at a time;    *)
(*   SpecRc  a client of the lazy infinite graphs with their Lazy cells in *)
(*           a heap, one dereference at a time.                            *)
(***************************************************************************)
EXTENDS Integers, Sequences, FiniteSets, TLC

VARIABLES
  s,      \* the ScWorld in use
  c0,     \* the start configuration of the last driver call
  bad,    \* the set of configurations the predicate `bad` holds of
  l,      \* the LazyGraph the client holds
  l_in,   \* the LazyGraph the last operation was applied to
  l8,     \* the LazyGraph8 the client holds
  l8_in,  \* the LazyGraph8 the last operation was applied to
  gs,     \* the list of graphs (Gs) the client holds
  gs_in,  \* the list of graphs the last operation was applied to
  stat,   \* the result of the last statistics call
  op,     \* the last operation called
  cart_xss, \* the list of lists the client passes to cartesian
  cart_res, \* the list of tuples cartesian returned
  fold_c1,  \* the configurations the client passes to is_foldable_to
  fold_c2,
  fold_res, \* what is_foldable_to returned
  cells,  \* the Lazy cells of the Build8 nodes made so far, by address
  runs,   \* how many times the producer of each cell has run
  built,  \* how many LazyGraph8 nodes have been constructed so far
  seen,   \* the last observation of a cell: its address and the value read
  calls   \* the calls of the driver's loop not yet made: pairs (h, c)

pure_vars == <<cart_xss, cart_res, fold_c1, fold_c2, fold_res>>

heap_vars == <<cells, runs, built, seen>>

vars == <<s, c0, bad, l, l_in, l8, l8_in, gs, gs_in, stat, op,
          pure_vars, heap_vars, calls>>

(***************************************************************************)
(* Bounds of the model.                                                    *)
(***************************************************************************)
\* configurations of the table worlds and of the client-built graphs: 0..MaxConf
MaxConf == 1
\* alternatives of a client-built Build node
MaxAlts == 2
\* children of one alternative of a client-built Build node
MaxKids == 2
\* nodes of a held lazy graph the client builds one more node around
MaxInner == 2
\* children of the node the client builds around a held lazy graph
MaxWrap == 2
\* start configurations of the mock world: 0..MaxStart
MaxStart == 1
\* whistles of the table worlds: length(h) > d for d in 0..MaxWhistle
MaxWhistle == 1
\* counters worlds: max_nw in 1..MaxNW, max_depth in 0..MaxDepth, and the
\* numbers of a start configuration in 0..MaxCount
MaxNW == 3
MaxDepth == 3
MaxCount == 2
\* lists passed to cartesian: at most MaxTuple lists of at most MaxList elements
MaxTuple == 3
MaxList == 3
\* cells a client evaluates one by one before it prunes
MaxForced == 3
\* max_depth of the counters worlds taken cell by cell
MaxDepthRc == 2
\* components of a configuration passed to is_foldable_to
MaxNWC == 3

Conf == 0..MaxConf

\* usize::MAX, the representation of "no graph" in cl_min_size; the model
\* keeps the sentinel at the top of the checker's integers.
usize_MAX == 2147483647

(***************************************************************************)
(* Sequence helpers: vec_map!, Itertools::concat, Iterator::any.           *)
(***************************************************************************)
RECURSIVE concat(_)
concat(xss) ==
  IF Len(xss) = 0 THEN <<>> ELSE Head(xss) \o concat(Tail(xss))

RECURSIVE vec_sum(_)
vec_sum(xs) ==
  IF Len(xs) = 0 THEN 0 ELSE Head(xs) + vec_sum(Tail(xs))

(***************************************************************************)
(* misc.rs: Cartesian product and History.                                 *)
(***************************************************************************)
RECURSIVE multi_cartesian_product(_)
\* a slip of the product: the leftmost list varies fastest
multi_cartesian_product_left_fastest(xss) ==
  IF Len(xss) = 1
  THEN [i \in 1..Len(xss[1]) |-> <<xss[1][i]>>]
  ELSE LET yss == multi_cartesian_product(Tail(xss))
       IN  concat([j \in 1..Len(yss) |->
                     [i \in 1..Len(xss[1]) |-> <<xss[1][i]>> \o yss[j]]])

\* itertools' multi_cartesian_product of a non-empty list of lists:
\* the rightmost list varies fastest
multi_cartesian_product(xss) ==
  IF Len(xss) = 1
  THEN [i \in 1..Len(xss[1]) |-> <<xss[1][i]>>]
  ELSE LET yss == multi_cartesian_product(Tail(xss))
       IN  concat([i \in 1..Len(xss[1]) |->
                     [j \in 1..Len(yss) |-> <<xss[1][i]>> \o yss[j]]])

cartesian(xss) ==
  IF Len(xss) = 0 THEN << <<>> >> ELSE multi_cartesian_product(xss)

\* History::new
HistoryNew == <<>>

\* History::cons: the newest configuration is the head
HistoryCons(h, x) == <<x>> \o h

\* History::length
HistoryLength(h) == Len(h)

(***************************************************************************)
(* graph.rs: Graph and LazyGraph.                                          *)
(***************************************************************************)
back(c) == [tag |-> "Back", c |-> c]
forth(c, g) == [tag |-> "Forth", c |-> c, gs |-> g]

empty == [tag |-> "Empty"]
stop(c) == [tag |-> "Stop", c |-> c]
build(c, lss) == [tag |-> "Build", c |-> c, lss |-> lss]

RECURSIVE unroll(_)
unroll(lg) ==
  CASE lg.tag = "Empty" -> <<>>
    [] lg.tag = "Stop" -> <<back(lg.c)>>
    [] lg.tag = "Build" ->
         LET gss == concat([i \in 1..Len(lg.lss) |->
                       cartesian([j \in 1..Len(lg.lss[i]) |->
                                    unroll(lg.lss[i][j])])])
         IN  [k \in 1..Len(gss) |-> forth(lg.c, gss[k])]

RECURSIVE bad_graph(_, _)
bad_graph(b, g) ==
  CASE g.tag = "Back" -> g.c \in b
    [] g.tag = "Forth" ->
         (g.c \in b) \/ (\E i \in 1..Len(g.gs) : bad_graph(b, g.gs[i]))

RECURSIVE fl_bad_conf(_, _)
fl_bad_conf(b, g) ==
  IF Len(g) = 0 THEN <<>>
  ELSE IF ~bad_graph(b, Head(g))
       THEN <<Head(g)>> \o fl_bad_conf(b, Tail(g))
       ELSE fl_bad_conf(b, Tail(g))

is_lg_empty(lg) == lg.tag = "Empty"

\* a slip of cl_empty_build: the node is built over no alternative too
cl_empty_build_always(c, lss) == build(c, lss)

cl_empty_build(c, lss) ==
  IF Len(lss) = 0 THEN empty ELSE build(c, lss)

RECURSIVE cl_empty(_)
\* a slip of cl_empty_ls: the children that are Empty are dropped, not the
\* alternative
cl_empty_ls_drop_child(ls) ==
  LET ls1 == [j \in 1..Len(ls) |-> cl_empty(ls[j])]
      RECURSIVE keep(_)
      keep(xs) ==
        IF Len(xs) = 0 THEN <<>>
        ELSE IF is_lg_empty(Head(xs)) THEN keep(Tail(xs))
             ELSE <<Head(xs)>> \o keep(Tail(xs))
  IN  <<keep(ls1)>>

\* a slip of cl_empty_ls: Empty is looked for among the children as given
cl_empty_ls_uncleaned(ls) ==
  LET ls1 == [j \in 1..Len(ls) |-> cl_empty(ls[j])]
  IN  IF \E j \in 1..Len(ls) : is_lg_empty(ls[j]) THEN <<>> ELSE <<ls1>>

\* None is modelled by the empty list of results, Some(ls1) by <<ls1>>
cl_empty_ls(ls) ==
  LET ls1 == [j \in 1..Len(ls) |-> cl_empty(ls[j])]
  IN  IF \E j \in 1..Len(ls1) : is_lg_empty(ls1[j]) THEN <<>> ELSE <<ls1>>

cl_empty_lss(lss) ==
  concat([i \in 1..Len(lss) |-> cl_empty_ls(lss[i])])

cl_empty(lg) ==
  CASE lg.tag = "Empty" -> empty
    [] lg.tag = "Stop" -> stop(lg.c)
    [] lg.tag = "Build" -> cl_empty_build(lg.c, cl_empty_lss(lg.lss))

RECURSIVE cl_bad_conf(_, _)
\* a slip of cl_bad_conf: the configuration of a Build node is not tested
cl_bad_conf_no_build_test(b, lg) ==
  CASE lg.tag = "Empty" -> empty
    [] lg.tag = "Stop" -> IF lg.c \in b THEN empty ELSE stop(lg.c)
    [] lg.tag = "Build" ->
         build(lg.c,
           [i \in 1..Len(lg.lss) |->
              [j \in 1..Len(lg.lss[i]) |-> cl_bad_conf(b, lg.lss[i][j])]])

cl_bad_conf(b, lg) ==
  CASE lg.tag = "Empty" -> empty
    [] lg.tag = "Stop" -> IF lg.c \in b THEN empty ELSE stop(lg.c)
    [] lg.tag = "Build" ->
         IF lg.c \in b THEN empty
         ELSE build(lg.c,
                [i \in 1..Len(lg.lss) |->
                   [j \in 1..Len(lg.lss[i]) |-> cl_bad_conf(b, lg.lss[i][j])]])

cl_empty_and_bad(b, lg) == cl_empty(cl_bad_conf(b, lg))

RECURSIVE graph_size(_)
graph_size(g) ==
  CASE g.tag = "Back" -> 1
    [] g.tag = "Forth" ->
         1 + vec_sum([i \in 1..Len(g.gs) |-> graph_size(g.gs[i])])

add_min_size(x1, x2) ==
  IF x1 = usize_MAX \/ x2 = usize_MAX THEN usize_MAX ELSE x1 + x2

\* a slip of select_min2: the comparison is turned round
select_min2_max(kx1, kx2) == IF kx1[1] >= kx2[1] THEN kx1 ELSE kx2

select_min2(kx1, kx2) == IF kx1[1] <= kx2[1] THEN kx1 ELSE kx2

RECURSIVE sel_min_size(_)
RECURSIVE sel_min_size_and_loop(_, _, _)
RECURSIVE sel_min_size_and_loop_rev(_, _, _)
\* a slip of sel_min_size_and: the cleaned children are collected in reverse
sel_min_size_and_loop_rev(ls, k, ls1) ==
  IF Len(ls) = 0 THEN <<k, ls1>>
  ELSE LET kl == sel_min_size(Head(ls))
       IN  sel_min_size_and_loop_rev(Tail(ls), add_min_size(k, kl[1]),
                                     <<kl[2]>> \o ls1)

\* the loop of sel_min_size_and over ls[i..], with the accumulators k, ls1
sel_min_size_and_loop(ls, k, ls1) ==
  IF Len(ls) = 0 THEN <<k, ls1>>
  ELSE LET kl == sel_min_size(Head(ls))
       IN  sel_min_size_and_loop(Tail(ls), add_min_size(k, kl[1]),
                                 Append(ls1, kl[2]))

sel_min_size_and(ls) == sel_min_size_and_loop(ls, 0, <<>>)

RECURSIVE sel_min_size2_loop(_, _)
sel_min_size2_loop(lss, acc) ==
  IF Len(lss) = 0 THEN acc
  ELSE sel_min_size2_loop(Tail(lss),
                          select_min2(sel_min_size_and(Head(lss)), acc))

sel_min_size2(lss) == sel_min_size2_loop(lss, <<usize_MAX, <<>>>>)

sel_min_size(lg) ==
  CASE lg.tag = "Empty" -> <<usize_MAX, empty>>
    [] lg.tag = "Stop" -> <<1, stop(lg.c)>>
    [] lg.tag = "Build" ->
         LET kls == sel_min_size2(lg.lss)
         IN  IF kls[1] = usize_MAX THEN <<usize_MAX, empty>>
             ELSE <<1 + kls[1], build(lg.c, <<kls[2]>>)>>

cl_min_size(lg) == sel_min_size(lg)[2]

(***************************************************************************)
(* statistics.rs: counting without generation.                             *)
(***************************************************************************)
RECURSIVE length_unroll(_)
RECURSIVE length_unroll_ls(_, _)
\* a slip of the inner loop: the product is added to, m += length_unroll(l1)
length_unroll_ls_sum(ls, m) ==
  IF Len(ls) = 0 THEN m
  ELSE length_unroll_ls(Tail(ls), m + length_unroll(Head(ls)))

\* the inner loop: m *= length_unroll(l1)
length_unroll_ls(ls, m) ==
  IF Len(ls) = 0 THEN m
  ELSE length_unroll_ls(Tail(ls), m * length_unroll(Head(ls)))

RECURSIVE length_unroll_lss(_, _)
\* the outer loop: s += m
length_unroll_lss(lss, acc) ==
  IF Len(lss) = 0 THEN acc
  ELSE length_unroll_lss(Tail(lss), acc + length_unroll_ls(Head(lss), 1))

length_unroll(lg) ==
  CASE lg.tag = "Empty" -> 0
    [] lg.tag = "Stop" -> 1
    [] lg.tag = "Build" -> length_unroll_lss(lg.lss, 0)

RECURSIVE size_unroll(_)
RECURSIVE size_unroll_ls_loop(_, _, _)
\* a slip of size_unroll_ls: k is updated before n is computed from it
size_unroll_ls_loop_seq(ls, k, n) ==
  IF Len(ls) = 0 THEN <<k, n>>
  ELSE LET kn == size_unroll(Head(ls))
           k2 == k * kn[1]
       IN  size_unroll_ls_loop(Tail(ls), k2, k2 * kn[2] + kn[1] * n)

size_unroll_ls_loop(ls, k, n) ==
  IF Len(ls) = 0 THEN <<k, n>>
  ELSE LET kn == size_unroll(Head(ls))
       IN  size_unroll_ls_loop(Tail(ls), k * kn[1], k * kn[2] + kn[1] * n)

size_unroll_ls(ls) == size_unroll_ls_loop(ls, 1, 0)

RECURSIVE size_unroll_lss(_, _, _)
size_unroll_lss(lss, k, n) ==
  IF Len(lss) = 0 THEN <<k, n>>
  ELSE LET kn == size_unroll_ls(Head(lss))
       IN  size_unroll_lss(Tail(lss), k + kn[1], n + kn[1] + kn[2])

size_unroll(lg) ==
  CASE lg.tag = "Empty" -> <<0, 0>>
    [] lg.tag = "Stop" -> <<1, 1>>
    [] lg.tag = "Build" -> size_unroll_lss(lg.lss, 0, 0)

(***************************************************************************)
(* big_step_sc.rs: worlds of supercompilation and the drivers.             *)
(*                                                                         *)
(* A world is a value of the trait ScWorld.  The model holds the mock      *)
(* world of mock_sc_world.rs and the worlds given by a table: develop is a *)
(* function of the configuration, is_foldable_to a relation, is_dangerous  *)
(* a bound on the length of the history.                                   *)
(***************************************************************************)
mock_drive(c) == IF c < 2 THEN <<>> ELSE << <<0, c - 1>>, <<c - 1>> >>

mock_rebuild(c) == << <<c + 1>> >>

MockWorld == [kind |-> "mock"]

(***************************************************************************)
(* counters.rs: the worlds of counter systems.  A configuration (NWC) is a *)
(* list of NW, a number N(i) or W() (omega).  The counter system is        *)
(* TestCW0 of the tests, over two counters.                                *)
(***************************************************************************)
N(i) == [nw |-> "N", i |-> i]
W == [nw |-> "W"]

\* impl Add<isize> for NW, impl Sub<isize> for NW
nw_add(x, j) == IF x.nw = "N" THEN N(x.i + j) ELSE W
nw_sub(x, j) == IF x.nw = "N" THEN N(x.i - j) ELSE W

\* nw >= j by impl PartialOrd<isize> for NW: W() compares Equal to every j
nw_ge(x, j) == IF x.nw = "N" THEN x.i >= j ELSE TRUE

\* a slip of is_in: omega is in every number
is_in_omega_in_number(nwi, nwj) ==
  CASE nwi.nw = "N" /\ nwj.nw = "N" -> nwi.i = nwj.i
    [] nwj.nw = "W" -> TRUE
    [] nwi.nw = "W" /\ nwj.nw = "N" -> TRUE

is_in(nwi, nwj) ==
  CASE nwi.nw = "N" /\ nwj.nw = "N" -> nwi.i = nwj.i
    [] nwj.nw = "W" -> TRUE
    [] nwi.nw = "W" /\ nwj.nw = "N" -> FALSE

is_too_big_nw(x, max_nw) == IF x.nw = "W" THEN FALSE ELSE x.i >= max_nw

is_too_big(c, max_nw) == \E k \in 1..Len(c) : is_too_big_nw(c[k], max_nw)

\* TestCW0::rules: the pairs (enabled, result) in the order of the rules
TestCW0_rules(c) ==
  LET i == c[1]
      j == c[2]
  IN  << <<nw_ge(i, 1), <<nw_sub(i, 1), nw_add(j, 1)>> >>,
         <<nw_ge(j, 1), <<nw_add(i, 1), nw_sub(j, 1)>> >> >>

RECURSIVE seq_filter_rules(_)
\* vec_map!(pr.1; pr in rules, pr.0)
seq_filter_rules(prs) ==
  IF Len(prs) = 0 THEN <<>>
  ELSE IF Head(prs)[1] THEN <<Head(prs)[2]>> \o seq_filter_rules(Tail(prs))
       ELSE seq_filter_rules(Tail(prs))

counters_drive(c) == seq_filter_rules(TestCW0_rules(c))

rebuild1(x) == IF x.nw = "N" THEN <<x, W>> ELSE <<W>>

RECURSIVE seq_filter_neq(_, _)
\* vec_map!(vec![c1]; c1 in cs, &c1 != c)
seq_filter_neq(cs, c) ==
  IF Len(cs) = 0 THEN <<>>
  ELSE IF Head(cs) # c THEN << <<Head(cs)>> >> \o seq_filter_neq(Tail(cs), c)
       ELSE seq_filter_neq(Tail(cs), c)

counters_rebuild(c) ==
  seq_filter_neq(cartesian([k \in 1..Len(c) |-> rebuild1(c[k])]), c)

\* zip(c1, c2).all(is_in): zip stops at the end of the shorter list
zip_all_is_in(c1, c2) ==
  \A k \in 1..(IF Len(c1) <= Len(c2) THEN Len(c1) ELSE Len(c2)) :
    is_in(c1[k], c2[k])

develop(w, c) ==
  CASE w.kind = "mock" -> mock_drive(c) \o mock_rebuild(c)
    [] w.kind = "table" -> w.dev[c]
    [] w.kind = "counters" -> <<counters_drive(c)>> \o counters_rebuild(c)

is_foldable_to(w, c1, c2) ==
  CASE w.kind = "mock" -> c1 = c2
    [] w.kind = "table" -> <<c1, c2>> \in w.fold
    [] w.kind = "counters" -> zip_all_is_in(c1, c2)

\* a slip of the whistles: they blow one configuration later
is_dangerous_late(w, h) ==
  CASE w.kind = "mock" -> HistoryLength(h) > 4
    [] w.kind = "table" -> HistoryLength(h) > w.whistle + 1
    [] w.kind = "counters" ->
         \/ \E k \in 1..Len(h) : is_too_big(h[k], w.max_nw)
         \/ HistoryLength(h) > w.max_depth

is_dangerous(w, h) ==
  CASE w.kind = "mock" -> HistoryLength(h) > 3
    [] w.kind = "table" -> HistoryLength(h) > w.whistle
    [] w.kind = "counters" ->
         \/ \E k \in 1..Len(h) : is_too_big(h[k], w.max_nw)
         \/ HistoryLength(h) >= w.max_depth

\* a slip of is_foldable_to_history: the configuration itself is taken for a
\* member of its history
is_foldable_to_history_self(w, c, h) ==
  \/ is_foldable_to(w, c, c)
  \/ \E i \in 1..Len(h) : is_foldable_to(w, c, h[i])

\* a slip of is_foldable_to_history: the newest configuration of the history
\* is not looked at
is_foldable_to_history_skip_newest(w, c, h) ==
  \E i \in 2..Len(h) : is_foldable_to(w, c, h[i])

\* History::any with the closure of is_foldable_to_history
is_foldable_to_history(w, c, h) ==
  \E i \in 1..Len(h) : is_foldable_to(w, c, h[i])

RECURSIVE naive_mrsc_loop(_, _, _)
\* a slip of naive_mrsc_loop: the whistle is asked before the fold
naive_mrsc_loop_whistle_first(w, h, c) ==
  IF is_dangerous(w, h) THEN <<>>
  ELSE IF is_foldable_to_history(w, c, h) THEN <<back(c)>>
  ELSE LET css == develop(w, c)
           h1 == HistoryCons(h, c)
           gsss == [i \in 1..Len(css) |->
                      cartesian([j \in 1..Len(css[i]) |->
                                   naive_mrsc_loop(w, h1, css[i][j])])]
           gss == concat(gsss)
       IN  [k \in 1..Len(gss) |-> forth(c, gss[k])]

\* a slip of naive_mrsc_loop: a configuration without alternatives is made a
\* leaf
naive_mrsc_loop_dead_end_leaf(w, h, c) ==
  IF is_foldable_to_history(w, c, h) THEN <<back(c)>>
  ELSE IF is_dangerous(w, h) THEN <<>>
  ELSE LET css == develop(w, c)
           h1 == HistoryCons(h, c)
           gsss == [i \in 1..Len(css) |->
                      cartesian([j \in 1..Len(css[i]) |->
                                   naive_mrsc_loop(w, h1, css[i][j])])]
           gss == IF Len(css) = 0 THEN << <<>> >> ELSE concat(gsss)
       IN  [k \in 1..Len(gss) |-> forth(c, gss[k])]

naive_mrsc_loop(w, h, c) ==
  IF is_foldable_to_history(w, c, h) THEN <<back(c)>>
  ELSE IF is_dangerous(w, h) THEN <<>>
  ELSE LET css == develop(w, c)
           h1 == HistoryCons(h, c)
           gsss == [i \in 1..Len(css) |->
                      cartesian([j \in 1..Len(css[i]) |->
                                   naive_mrsc_loop(w, h1, css[i][j])])]
           gss == concat(gsss)
       IN  [k \in 1..Len(gss) |-> forth(c, gss[k])]

naive_mrsc(w, c) == naive_mrsc_loop(w, HistoryNew, c)

RECURSIVE lazy_mrsc_loop(_, _, _)
\* a slip of lazy_mrsc_loop: the whistle is asked before the fold
lazy_mrsc_loop_whistle_first(w, h, c) ==
  IF is_dangerous(w, h) THEN empty
  ELSE IF is_foldable_to_history(w, c, h) THEN stop(c)
  ELSE LET css == develop(w, c)
           h1 == HistoryCons(h, c)
       IN  build(c, [i \in 1..Len(css) |->
                       [j \in 1..Len(css[i]) |->
                          lazy_mrsc_loop(w, h1, css[i][j])]])

\* a slip of lazy_mrsc_loop: the children of an alternative come in the
\* reverse order
lazy_mrsc_loop_rev_children(w, h, c) ==
  IF is_foldable_to_history(w, c, h) THEN stop(c)
  ELSE IF is_dangerous(w, h) THEN empty
  ELSE LET css == develop(w, c)
           h1 == HistoryCons(h, c)
       IN  build(c, [i \in 1..Len(css) |->
                       [j \in 1..Len(css[i]) |->
                          lazy_mrsc_loop(w, h1,
                                         css[i][Len(css[i]) + 1 - j])]])

lazy_mrsc_loop(w, h, c) ==
  IF is_foldable_to_history(w, c, h) THEN stop(c)
  ELSE IF is_dangerous(w, h) THEN empty
  ELSE LET css == develop(w, c)
           h1 == HistoryCons(h, c)
       IN  build(c, [i \in 1..Len(css) |->
                       [j \in 1..Len(css[i]) |->
                          lazy_mrsc_loop(w, h1, css[i][j])]])

lazy_mrsc(w, c) == lazy_mrsc_loop(w, HistoryNew, c)

(***************************************************************************)
(* big_step_sc8.rs: lazy infinite graphs.                                  *)
(*                                                                         *)
(* The children of a Build8 node are a Lazy cell.  The cell is modelled by *)
(* the closure it was made from: the thunk of build_graph8_loop captures   *)
(* the history h1 and the alternatives css, the thunk of cl8_bad_conf      *)
(* captures bad and the cell of the node it cleans.  force evaluates the   *)
(* closure.                                                                *)
(***************************************************************************)
empty8 == [tag |-> "Empty8"]
stop8(c) == [tag |-> "Stop8", c |-> c]
build8(c, l8ss) == [tag |-> "Build8", c |-> c, l8ss |-> l8ss]

\* a slip of build_graph8_loop: the thunk captures h, not cons(c, h)
build_graph8_loop_old_history(w, h, c) ==
  IF is_foldable_to_history(w, c, h) THEN stop8(c)
  ELSE IF is_dangerous(w, h) THEN empty8
  ELSE LET css == develop(w, c)
       IN  build8(c, [kind |-> "build_graph8_loop", h1 |-> h, css |-> css])

build_graph8_loop(w, h, c) ==
  IF is_foldable_to_history(w, c, h) THEN stop8(c)
  ELSE IF is_dangerous(w, h) THEN empty8
  ELSE LET css == develop(w, c)
           h1 == HistoryCons(h, c)
       IN  build8(c, [kind |-> "build_graph8_loop", h1 |-> h1, css |-> css])

build_graph8(w, c) == build_graph8_loop(w, HistoryNew, c)

cl8_bad_conf(b, lg8) ==
  CASE lg8.tag = "Empty8" -> empty8
    [] lg8.tag = "Stop8" -> IF lg8.c \in b THEN empty8 ELSE stop8(lg8.c)
    [] lg8.tag = "Build8" ->
         build8(lg8.c, [kind |-> "cl8_bad_conf", bad |-> b, l8ss |-> lg8.l8ss])

\* cl8_empty, after the reference definition kept in the comments: the
\* thunk of the result captures the cell of the node it cleans
cl8_empty(lg8) ==
  CASE lg8.tag = "Empty8" -> lg8
    [] lg8.tag = "Stop8" -> lg8
    [] lg8.tag = "Build8" ->
         build8(lg8.c, [kind |-> "cl8_empty", l8ss |-> lg8.l8ss])

RECURSIVE without_empty8(_)
\* [ls for ls in lss if !(Empty8() in ls)]
without_empty8(lss) ==
  IF Len(lss) = 0 THEN <<>>
  ELSE IF \E j \in 1..Len(Head(lss)) : Head(lss)[j] = empty8
       THEN without_empty8(Tail(lss))
       ELSE <<Head(lss)>> \o without_empty8(Tail(lss))

RECURSIVE force(_, _)
\* the value of a Lazy cell: the body of the lazy! expression it holds
force(w, t) ==
  CASE t.kind = "build_graph8_loop" ->
         [i \in 1..Len(t.css) |->
            [j \in 1..Len(t.css[i]) |->
               build_graph8_loop(w, t.h1, t.css[i][j])]]
    [] t.kind = "cl8_bad_conf" ->
         LET lss == force(w, t.l8ss)
         IN  [i \in 1..Len(lss) |->
                [j \in 1..Len(lss[i]) |-> cl8_bad_conf(t.bad, lss[i][j])]]
    [] t.kind = "cl8_empty" ->
         LET lss == force(w, t.l8ss)
         IN  without_empty8([i \in 1..Len(lss) |->
                [j \in 1..Len(lss[i]) |-> cl8_empty(lss[i][j])]])

RECURSIVE prune_graph8_loop(_, _, _)
\* a slip of prune_graph8_loop: a Stop8 leaf is pruned to Empty
prune_graph8_loop_stop_empty(w, h, lg8) ==
  CASE lg8.tag = "Empty8" -> empty
    [] lg8.tag = "Stop8" -> empty
    [] lg8.tag = "Build8" ->
         IF is_dangerous(w, h) THEN empty
         ELSE LET h1 == HistoryCons(h, lg8.c)
                  lss == force(w, lg8.l8ss)
              IN  build(lg8.c,
                    [i \in 1..Len(lss) |->
                       [j \in 1..Len(lss[i]) |->
                          prune_graph8_loop(w, h1, lss[i][j])]])

prune_graph8_loop(w, h, lg8) ==
  CASE lg8.tag = "Empty8" -> empty
    [] lg8.tag = "Stop8" -> stop(lg8.c)
    [] lg8.tag = "Build8" ->
         IF is_dangerous(w, h) THEN empty
         ELSE LET h1 == HistoryCons(h, lg8.c)
                  lss == force(w, lg8.l8ss)
              IN  build(lg8.c,
                    [i \in 1..Len(lss) |->
                       [j \in 1..Len(lss[i]) |->
                          prune_graph8_loop(w, h1, lss[i][j])]])

prune_graph8(w, lg8) == prune_graph8_loop(w, HistoryNew, lg8)

RECURSIVE prune_loop(_, _, _)
\* prune, after the reference definition kept in the comments
prune_loop(w, h, lg8) ==
  CASE lg8.tag = "Empty8" -> empty
    [] lg8.tag = "Stop8" -> stop(lg8.c)
    [] lg8.tag = "Build8" ->
         IF is_dangerous(w, h) THEN empty
         ELSE LET lss1 == without_empty8(force(w, lg8.l8ss))
                  h1 == HistoryCons(h, lg8.c)
              IN  build(lg8.c,
                    [i \in 1..Len(lss1) |->
                       [j \in 1..Len(lss1[i]) |->
                          prune_loop(w, h1, lss1[i][j])]])

prune(w, lg8) == prune_loop(w, HistoryNew, lg8)

(***************************************************************************)
(* big_step_sc8.rs: the cells of the lazy infinite graphs.                 *)
(*                                                                         *)
(* A Build8 node holds an Rc to a Lazy cell; build8 clones the Rc, so the  *)
(* node and whoever made the cell share it.  Here a cell is an address in  *)
(* a heap: cells[a] is Unevaluated with the closure of its lazy!           *)
(* expression, or Evaluated with its value; runs[a] counts how often the   *)
(* closure made at address a was run, built how many LazyGraph8 nodes were *)
(* constructed.  Every function takes the heap H and returns the heap      *)
(* after its call in .h and its result in .v.                              *)
(***************************************************************************)
\* the element of a set of one element; {e(r) : r \in {call}} is e of the
\* result r of a call that is made once
the(S) == CHOOSE y \in S : TRUE

\* Rc::new(lazy!(...)): a new cell, not evaluated, holding the closure t
new_lazy(H, t) ==
  [H EXCEPT !.cells = Append(@, [st |-> "Unevaluated", thunk |-> t]),
            !.runs = Append(@, 0)]

\* Rc::new of a LazyGraph8 node, in empty8, stop8 and build8
new_node8(H) == [H EXCEPT !.built = @ + 1]

RECURSIVE build_graph8_loop_rc(_, _, _, _)
RECURSIVE cl8_bad_conf_rc(_, _, _)
RECURSIVE prune_graph8_loop_rc(_, _, _, _)
RECURSIVE deref(_, _, _)
RECURSIVE vec_map_rc(_, _, _, _, _)
RECURSIVE vec_map2_rc(_, _, _, _, _)

\* the body of a vec_map!: the function named f, with its argument x, on an
\* element
apply_rc(w, H, f, x, e) ==
  CASE f = "build_graph8_loop" -> build_graph8_loop_rc(w, H, x, e)
    [] f = "cl8_bad_conf" -> cl8_bad_conf_rc(H, x, e)
    [] f = "prune_graph8_loop" -> prune_graph8_loop_rc(w, H, x, e)

\* vec_map!(f(x, e); e in xs), from left to right
vec_map_rc(w, H, f, x, xs) ==
  IF Len(xs) = 0 THEN [h |-> H, v |-> <<>>]
  ELSE the(UNION {{[h |-> rs.h, v |-> <<r.v>> \o rs.v] :
                      rs \in {vec_map_rc(w, r.h, f, x, Tail(xs))}} :
                    r \in {apply_rc(w, H, f, x, Head(xs))}})

\* vec_map!(vec_map!(f(x, e); e in xs); xs in xss)
vec_map2_rc(w, H, f, x, xss) ==
  IF Len(xss) = 0 THEN [h |-> H, v |-> <<>>]
  ELSE the(UNION {{[h |-> rs.h, v |-> <<r.v>> \o rs.v] :
                      rs \in {vec_map2_rc(w, r.h, f, x, Tail(xss))}} :
                    r \in {vec_map_rc(w, H, f, x, Head(xss))}})

\* a slip of build_graph8_loop: the children are built with the node
build_graph8_loop_rc_eager(w, H, h, c) ==
  IF is_foldable_to_history(w, c, h) THEN [h |-> new_node8(H), v |-> stop8(c)]
  ELSE IF is_dangerous(w, h) THEN [h |-> new_node8(H), v |-> empty8]
  ELSE LET a == Len(H.cells) + 1
           css == develop(w, c)
           h1 == HistoryCons(h, c)
           t == [kind |-> "build_graph8_loop", id |-> a,
                 css |-> css, h1 |-> h1]
       IN  the({[h |-> new_node8([r.h EXCEPT
                            !.cells[a] = [st |-> "Evaluated", val |-> r.v],
                            !.runs[a] = @ + 1]),
                 v |-> build8(c, a)] :
                  r \in {vec_map2_rc(w, new_lazy(H, t), "build_graph8_loop",
                                     h1, css)}})

build_graph8_loop_rc(w, H, h, c) ==
  IF is_foldable_to_history(w, c, h) THEN [h |-> new_node8(H), v |-> stop8(c)]
  ELSE IF is_dangerous(w, h) THEN [h |-> new_node8(H), v |-> empty8]
  ELSE LET a == Len(H.cells) + 1
           t == [kind |-> "build_graph8_loop", id |-> a,
                 css |-> develop(w, c), h1 |-> HistoryCons(h, c)]
       IN  [h |-> new_node8(new_lazy(H, t)), v |-> build8(c, a)]

\* a slip of cl8_bad_conf: the closure captures a copy of the cell of the
\* node it cleans
cl8_bad_conf_rc_copy(H, b, lg8) ==
  CASE lg8.tag = "Empty8" -> [h |-> new_node8(H), v |-> empty8]
    [] lg8.tag = "Stop8" ->
         [h |-> new_node8(H),
          v |-> IF lg8.c \in b THEN empty8 ELSE stop8(lg8.c)]
    [] lg8.tag = "Build8" ->
         LET a == Len(H.cells) + 1
             H1 == [H EXCEPT !.cells = Append(@, H.cells[lg8.l8ss]),
                             !.runs = Append(@, 0)]
             t == [kind |-> "cl8_bad_conf", id |-> a + 1,
                   bad |-> b, l8ss |-> a]
         IN  [h |-> new_node8(new_lazy(H1, t)), v |-> build8(lg8.c, a + 1)]

cl8_bad_conf_rc(H, b, lg8) ==
  CASE lg8.tag = "Empty8" -> [h |-> new_node8(H), v |-> empty8]
    [] lg8.tag = "Stop8" ->
         [h |-> new_node8(H),
          v |-> IF lg8.c \in b THEN empty8 ELSE stop8(lg8.c)]
    [] lg8.tag = "Build8" ->
         LET a == Len(H.cells) + 1
             t == [kind |-> "cl8_bad_conf", id |-> a,
                   bad |-> b, l8ss |-> lg8.l8ss]
         IN  [h |-> new_node8(new_lazy(H, t)), v |-> build8(lg8.c, a)]

\* the dereference of the Lazy cell at the address a: an evaluated cell gives
\* its value; a cell not yet evaluated runs its closure, keeps the value and
\* gives it (the cell of the crate lazy_st, as LazyVal and get_lazy_val in
\* the comments describe it)
deref(w, H, a) ==
  IF H.cells[a].st = "Evaluated" THEN [h |-> H, v |-> H.cells[a].val]
  ELSE LET t == H.cells[a].thunk
       IN  the({[h |-> [r.h EXCEPT
                            !.cells[a] = [st |-> "Evaluated", val |-> r.v],
                            !.runs[t.id] = @ + 1],
                 v |-> r.v] :
                  r \in {CASE t.kind = "build_graph8_loop" ->
                              vec_map2_rc(w, H, "build_graph8_loop",
                                          t.h1, t.css)
                         [] t.kind = "cl8_bad_conf" ->
                              the({vec_map2_rc(w, d.h, "cl8_bad_conf",
                                               t.bad, d.v) :
                                     d \in {deref(w, H, t.l8ss)}})}})

prune_graph8_loop_rc(w, H, h, lg8) ==
  CASE lg8.tag = "Empty8" -> [h |-> H, v |-> empty]
    [] lg8.tag = "Stop8" -> [h |-> H, v |-> stop(lg8.c)]
    [] lg8.tag = "Build8" ->
         IF is_dangerous(w, h) THEN [h |-> H, v |-> empty]
         ELSE the({[h |-> r.h, v |-> build(lg8.c, r.v)] :
                     r \in {the({vec_map2_rc(w, d.h, "prune_graph8_loop",
                                             HistoryCons(h, lg8.c), d.v) :
                                   d \in {deref(w, H, lg8.l8ss)}})}})

(***************************************************************************)
(* The inputs of the model.                                                *)
(***************************************************************************)
\* the sequences over S of length at most n
SeqsUpTo(S, n) == UNION {[1..k -> S] : k \in 0..n}

RECURSIVE kids_total(_)
\* the number of children of a list of alternatives
kids_total(lss) ==
  IF Len(lss) = 0 THEN 0 ELSE Len(Head(lss)) + kids_total(Tail(lss))

\* the lists of alternatives a client can pass to build: at most MaxAlts
\* alternatives of at most MaxKids children taken from K
AltLists(K) == SeqsUpTo(SeqsUpTo(K, MaxKids), MaxAlts)

Leaves == {empty} \cup {stop(c) : c \in Conf}

\* the lazy graphs of depth at most one
LazyGraphs1 ==
  Leaves \cup {build(c, lss) : c \in Conf, lss \in AltLists(Leaves)}

RECURSIVE lg_nodes(_)
\* the number of nodes of a lazy graph
lg_nodes(lg) ==
  IF lg.tag # "Build" THEN 1
  ELSE LET ls == concat(lg.lss)
       IN  1 + vec_sum([j \in 1..Len(ls) |-> lg_nodes(ls[j])])

\* the alternatives of a develop table: at most MaxAlts alternatives with at
\* most MaxKids configurations in all
DevChoices ==
  {css \in SeqsUpTo(SeqsUpTo(Conf, MaxKids), MaxAlts) : kids_total(css) <= MaxKids}

\* the foldability relations of the table worlds: equality, nothing folds,
\* less-or-equal
FoldRels ==
  { {<<c, c>> : c \in Conf},
    {},
    {cc \in Conf \X Conf : cc[1] <= cc[2]} }

TableWorlds ==
  {[kind |-> "table", dev |-> d, fold |-> f, whistle |-> w] :
     d \in [Conf -> DevChoices], f \in FoldRels, w \in 0..MaxWhistle}

\* the worlds of the counter system TestCW0
CountersWorlds ==
  {[kind |-> "counters", max_nw |-> m, max_depth |-> d] :
     m \in 1..MaxNW, d \in 0..MaxDepth}

Worlds == {MockWorld} \cup TableWorlds \cup CountersWorlds

NWs == {N(i) : i \in 0..MaxCount} \cup {W}

\* the start configurations of a world
Starts(w) ==
  CASE w.kind = "mock" -> 0..MaxStart
    [] w.kind = "table" -> Conf
    [] w.kind = "counters" -> {<<x, y>> : x \in NWs, y \in NWs}

\* the predicates `bad` of the client, as the sets of configurations they hold of
BadSets == SUBSET Conf

\* the predicates `bad` over the configurations of a counters world: nothing
\* is bad, the fully generalised configuration is, an empty counter is
CountersBadSets ==
  { {}, {<<W, W>>}, {<<x, y>> \in NWs \X NWs : x = N(0) \/ y = N(0)} }

Bads(w) == IF w.kind = "counters" THEN CountersBadSets ELSE BadSets

Hole == [tag |-> "Hole"]

\* the lists of alternatives around a held graph: the hole stands for it
WrapShapes ==
  {lss \in AltLists(Leaves \cup {Hole}) :
     /\ kids_total(lss) <= MaxWrap
     /\ \E i \in 1..Len(lss) : \E j \in 1..Len(lss[i]) : lss[i][j] = Hole}

fill(lss, lg) ==
  [i \in 1..Len(lss) |->
     [j \in 1..Len(lss[i]) |-> IF lss[i][j] = Hole THEN lg ELSE lss[i][j]]]

RECURSIVE Pow10(_)
Pow10(n) == IF n = 0 THEN 1 ELSE 10 * Pow10(n - 1)

\* the lists of lists passed to cartesian, as in test_cartesian: the i-th list
\* holds 1, 2, ... times the i-th power of ten, so that the place of an
\* element is seen from its value
CartInputs ==
  UNION {{[i \in 1..n |-> [j \in 1..lens[i] |-> j * Pow10(i - 1)]] :
            lens \in [1..n -> 0..MaxList]} : n \in 0..MaxTuple}

(***************************************************************************)
(* The client.                                                             *)
(***************************************************************************)
NoStat == <<0, 0>>

NoSeen == <<0, <<>>>>

\* nothing passed to cartesian, no cell allocated, nothing observed
InitRest ==
  /\ cart_xss = <<>> /\ cart_res = <<>>
  /\ fold_c1 = <<>> /\ fold_c2 = <<>> /\ fold_res = FALSE
  /\ cells = <<>> /\ runs = <<>> /\ built = 0 /\ seen = NoSeen
  /\ calls = <<>>

\* the configuration a new client has in hand: 0, or TestCW0::start()
start(w) == IF w.kind = "counters" THEN <<N(2), N(0)>> ELSE 0

Init ==
  /\ s \in Worlds
  /\ c0 = start(s)
  /\ bad = {}
  /\ l = empty /\ l_in = empty
  /\ l8 = empty8 /\ l8_in = empty8
  /\ gs = <<>> /\ gs_in = <<>>
  /\ stat = NoStat
  /\ op = "new"
  /\ InitRest

InitLG ==
  /\ s = MockWorld
  /\ c0 = 0
  /\ bad = {}
  /\ l \in LazyGraphs1 /\ l_in = empty
  /\ l8 = empty8 /\ l8_in = empty8
  /\ gs = <<>> /\ gs_in = <<>>
  /\ stat = NoStat
  /\ op = "build"
  /\ InitRest

\* the client calls a driver and keeps the result only
NaiveMrsc(c) ==
  /\ gs' = naive_mrsc(s, c)
  /\ c0' = c /\ op' = "naive_mrsc"
  /\ l' = empty /\ l_in' = empty /\ l8' = empty8 /\ l8_in' = empty8
  /\ gs_in' = <<>> /\ stat' = NoStat
  /\ UNCHANGED <<pure_vars, heap_vars, calls>>
  /\ UNCHANGED <<s, bad>>

LazyMrsc(c) ==
  /\ l' = lazy_mrsc(s, c)
  /\ c0' = c /\ op' = "lazy_mrsc"
  /\ l_in' = empty /\ l8' = empty8 /\ l8_in' = empty8
  /\ gs' = <<>> /\ gs_in' = <<>> /\ stat' = NoStat
  /\ UNCHANGED <<pure_vars, heap_vars, calls>>
  /\ UNCHANGED <<s, bad>>

BuildGraph8(c) ==
  /\ l8' = build_graph8(s, c)
  /\ c0' = c /\ op' = "build_graph8"
  /\ l' = empty /\ l_in' = empty /\ l8_in' = empty8
  /\ gs' = <<>> /\ gs_in' = <<>> /\ stat' = NoStat
  /\ UNCHANGED <<pure_vars, heap_vars, calls>>
  /\ UNCHANGED <<s, bad>>

\* the client cleans the lazy infinite graph a driver returned
Cl8BadConf(b) ==
  /\ op = "build_graph8"
  /\ l8' = cl8_bad_conf(b, l8)
  /\ l8_in' = l8 /\ bad' = b /\ op' = "cl8_bad_conf"
  /\ UNCHANGED <<pure_vars, heap_vars, calls>>
  /\ UNCHANGED <<s, c0, l, l_in, gs, gs_in, stat>>

PruneGraph8 ==
  /\ op \in {"build_graph8", "cl8_bad_conf"}
  /\ l' = prune_graph8(s, l8)
  /\ l8_in' = l8 /\ l8' = empty8 /\ op' = "prune_graph8"
  /\ l_in' = empty
  /\ UNCHANGED <<pure_vars, heap_vars, calls>>
  /\ UNCHANGED <<s, c0, bad, gs, gs_in, stat>>

Prune ==
  /\ op \in {"build_graph8", "cl8_bad_conf"}
  /\ l' = prune(s, l8)
  /\ l8_in' = l8 /\ l8' = empty8 /\ op' = "prune"
  /\ l_in' = empty
  /\ UNCHANGED <<pure_vars, heap_vars, calls>>
  /\ UNCHANGED <<s, c0, bad, gs, gs_in, stat>>

\* the client holds a lazy graph it has built or driven and not yet touched:
\* it calls one cleaner, interpreter or statistic on such a graph
Fresh == op \in {"build", "lazy_mrsc"}

\* a call on the held lazy graph that returns a lazy graph
Cleaned(name, b, lg) ==
  /\ Fresh
  /\ l' = lg
  /\ l_in' = l /\ bad' = b /\ op' = name
  /\ l8' = empty8 /\ l8_in' = empty8
  /\ gs' = <<>> /\ gs_in' = <<>> /\ stat' = NoStat
  /\ UNCHANGED <<pure_vars, heap_vars, calls>>
  /\ UNCHANGED <<s, c0>>

\* the client builds a node around the held graph with the constructors
BuildOver(c, lss) ==
  /\ lg_nodes(l) <= MaxInner
  /\ Cleaned("build", {}, build(c, fill(lss, l)))

ClEmpty == Cleaned("cl_empty", {}, cl_empty(l))

ClBadConf(b) == Cleaned("cl_bad_conf", b, cl_bad_conf(b, l))

ClEmptyAndBad(b) == Cleaned("cl_empty_and_bad", b, cl_empty_and_bad(b, l))

ClMinSize == Cleaned("cl_min_size", {}, cl_min_size(l))

\* a call on the held lazy graph that returns something else
Unroll ==
  /\ Fresh
  /\ gs' = unroll(l)
  /\ l_in' = l /\ op' = "unroll" /\ bad' = {}
  /\ gs_in' = <<>> /\ stat' = NoStat
  /\ l8' = empty8 /\ l8_in' = empty8
  /\ UNCHANGED <<pure_vars, heap_vars, calls>>
  /\ UNCHANGED <<s, c0, l>>

LengthUnroll ==
  /\ Fresh
  /\ stat' = <<length_unroll(l), 0>>
  /\ l_in' = l /\ op' = "length_unroll" /\ bad' = {}
  /\ gs' = <<>> /\ gs_in' = <<>>
  /\ l8' = empty8 /\ l8_in' = empty8
  /\ UNCHANGED <<pure_vars, heap_vars, calls>>
  /\ UNCHANGED <<s, c0, l>>

SizeUnroll ==
  /\ Fresh
  /\ stat' = size_unroll(l)
  /\ l_in' = l /\ op' = "size_unroll" /\ bad' = {}
  /\ gs' = <<>> /\ gs_in' = <<>>
  /\ l8' = empty8 /\ l8_in' = empty8
  /\ UNCHANGED <<pure_vars, heap_vars, calls>>
  /\ UNCHANGED <<s, c0, l>>

\* the client filters the list of graphs it holds
FlBadConf(b) ==
  /\ op \in {"naive_mrsc", "unroll"}
  /\ gs' = fl_bad_conf(b, gs)
  /\ gs_in' = gs /\ bad' = b /\ op' = "fl_bad_conf"
  /\ stat' = NoStat
  /\ l' = empty /\ l_in' = empty /\ l8' = empty8 /\ l8_in' = empty8
  /\ UNCHANGED <<pure_vars, heap_vars, calls>>
  /\ UNCHANGED <<s, c0>>

\* the client drives its world and looks at what it got
Next ==
  \/ \E c \in Starts(s) : NaiveMrsc(c)
  \/ \E c \in Starts(s) : LazyMrsc(c)
  \/ \E c \in Starts(s) : BuildGraph8(c)
  \/ \E b \in Bads(s) : Cl8BadConf(b)
  \/ PruneGraph8
  \/ Prune
  \/ Unroll
  \/ LengthUnroll
  \/ SizeUnroll
  \/ \E b \in Bads(s) : FlBadConf(b)

\* the client builds lazy graphs, or drives the mock world, and cleans them
NextLG ==
  \/ \E c \in Conf : \E lss \in WrapShapes : BuildOver(c, lss)
  \/ \E c \in Starts(s) : LazyMrsc(c)
  \/ ClEmpty
  \/ \E b \in BadSets : ClBadConf(b)
  \/ \E b \in BadSets : ClEmptyAndBad(b)
  \/ ClMinSize
  \/ Unroll
  \/ LengthUnroll
  \/ SizeUnroll
  \/ \E b \in BadSets : FlBadConf(b)

\* the client of misc.rs: one call of cartesian on a list of lists
InitCart ==
  /\ s = MockWorld
  /\ c0 = 0
  /\ bad = {}
  /\ l = empty /\ l_in = empty
  /\ l8 = empty8 /\ l8_in = empty8
  /\ gs = <<>> /\ gs_in = <<>>
  /\ stat = NoStat
  /\ op = "new"
  /\ cart_xss \in CartInputs /\ cart_res = <<>>
  /\ fold_c1 = <<>> /\ fold_c2 = <<>> /\ fold_res = FALSE
  /\ cells = <<>> /\ runs = <<>> /\ built = 0 /\ seen = NoSeen
  /\ calls = <<>>

Cartesian ==
  /\ op = "new"
  /\ cart_res' = cartesian(cart_xss)
  /\ op' = "cartesian"
  /\ UNCHANGED <<s, c0, bad, l, l_in, l8, l8_in, gs, gs_in, stat>>
  /\ UNCHANGED <<cart_xss, fold_c1, fold_c2, fold_res, heap_vars, calls>>

NextCart == Cartesian

(***************************************************************************)
(* The client of is_foldable_to of a counters world.                       *)
(***************************************************************************)
\* the configurations (NWC) of at most MaxNWC components
NWCs == UNION {[1..n -> NWs] : n \in 0..MaxNWC}

InitFold ==
  /\ s \in CountersWorlds
  /\ c0 = start(s)
  /\ bad = {}
  /\ l = empty /\ l_in = empty
  /\ l8 = empty8 /\ l8_in = empty8
  /\ gs = <<>> /\ gs_in = <<>>
  /\ stat = NoStat
  /\ op = "new"
  /\ InitRest

IsFoldableTo(c1, c2) ==
  /\ op = "new"
  /\ fold_c1' = c1 /\ fold_c2' = c2
  /\ fold_res' = is_foldable_to(s, c1, c2)
  /\ op' = "is_foldable_to"
  /\ UNCHANGED <<s, c0, bad, l, l_in, l8, l8_in, gs, gs_in, stat>>
  /\ UNCHANGED <<cart_xss, cart_res, heap_vars, calls>>

NextFold == \E c1, c2 \in NWCs : IsFoldableTo(c1, c2)

(***************************************************************************)
(* The loop of a driver, call by call.  naive_mrsc_loop and lazy_mrsc_loop *)
(* make the same calls: a call (h, c) returns at once when c folds to h or *)
(* h is dangerous, and otherwise calls itself on (cons(c, h), c1) for      *)
(* every c1 of every alternative of develop(c), from left to right.  The   *)
(* calls not yet made are kept in the order they will be made in.          *)
(***************************************************************************)
DriverLoops == {"naive_mrsc_loop", "lazy_mrsc_loop"}

\* the client calls a driver: the loop is entered with the empty history
CallDriver(loop, c) ==
  /\ op = "new"
  /\ calls' = << <<HistoryNew, c>> >>
  /\ c0' = c /\ op' = loop
  /\ UNCHANGED <<s, bad, l, l_in, l8, l8_in, gs, gs_in, stat>>
  /\ UNCHANGED <<pure_vars, heap_vars>>

\* the calls made by the call (h, c)
calls_of(w, h, c) ==
  IF is_foldable_to_history(w, c, h) \/ is_dangerous(w, h) THEN <<>>
  ELSE LET cs == concat(develop(w, c))
           h1 == HistoryCons(h, c)
       IN  [k \in 1..Len(cs) |-> <<h1, cs[k]>>]

\* one call of the loop; when no call is left the driver returns its result
LoopCall ==
  /\ op \in DriverLoops
  /\ calls # <<>>
  /\ LET rest == calls_of(s, Head(calls)[1], Head(calls)[2]) \o Tail(calls)
     IN  /\ calls' = rest
         /\ op' = IF rest # <<>> THEN op
                  ELSE IF op = "naive_mrsc_loop" THEN "naive_mrsc"
                       ELSE "lazy_mrsc"
         /\ gs' = IF rest = <<>> /\ op = "naive_mrsc_loop"
                  THEN naive_mrsc(s, c0) ELSE gs
         /\ l' = IF rest = <<>> /\ op = "lazy_mrsc_loop"
                 THEN lazy_mrsc(s, c0) ELSE l
  /\ UNCHANGED <<s, c0, bad, l_in, l8, l8_in, gs_in, stat>>
  /\ UNCHANGED <<pure_vars, heap_vars>>

NextLoop ==
  \/ \E loop \in DriverLoops : \E c \in Starts(s) : CallDriver(loop, c)
  \/ LoopCall

(***************************************************************************)
(* The client of the lazy infinite graphs, cell by cell: it builds the     *)
(* graph of a world, cleans it, prunes the graph or the cleaned graph, and *)
(* dereferences the cells it can reach, in any order and as often as it    *)
(* likes.                                                                  *)
(***************************************************************************)
\* the heap the client's graphs live in
heap == [cells |-> cells, runs |-> runs, built |-> built]

\* the cells evaluated so far
Forced(H) == {a \in 1..Len(H.cells) : H.cells[a].st = "Evaluated"}

\* the worlds whose graphs the client takes cell by cell
RcWorlds ==
  {MockWorld} \cup {w \in CountersWorlds : w.max_depth <= MaxDepthRc}

InitRc ==
  /\ s \in RcWorlds
  /\ c0 = start(s)
  /\ bad = {}
  /\ l = empty /\ l_in = empty
  /\ l8 = empty8 /\ l8_in = empty8
  /\ gs = <<>> /\ gs_in = <<>>
  /\ stat = NoStat
  /\ op = "new"
  /\ InitRest

BuildGraph8Rc(c) ==
  /\ op = "new"
  /\ \E r \in {build_graph8_loop_rc(s, heap, HistoryNew, c)} :
       /\ l8' = r.v /\ l8_in' = r.v
       /\ cells' = r.h.cells /\ runs' = r.h.runs /\ built' = r.h.built
  /\ c0' = c /\ op' = "build_graph8"
  /\ UNCHANGED <<s, bad, l, l_in, gs, gs_in, stat, seen, pure_vars, calls>>

\* the graph of build_graph8 stays in l8_in, the cleaned graph is l8
Cl8BadConfRc(b) ==
  /\ op # "new" /\ l8 = l8_in /\ l8.tag = "Build8"
  /\ \E r \in {cl8_bad_conf_rc(heap, b, l8_in)} :
       /\ l8' = r.v
       /\ cells' = r.h.cells /\ runs' = r.h.runs /\ built' = r.h.built
  /\ bad' = b /\ op' = "cl8_bad_conf"
  /\ UNCHANGED <<s, c0, l, l_in, l8_in, gs, gs_in, stat, seen, pure_vars,
                 calls>>

PruneGraph8Rc ==
  /\ op # "new"
  /\ \E g \in {l8, l8_in} :
       \E r \in {prune_graph8_loop_rc(s, heap, HistoryNew, g)} :
         /\ l' = r.v
         /\ cells' = r.h.cells /\ runs' = r.h.runs /\ built' = r.h.built
  /\ op' = "prune_graph8"
  /\ UNCHANGED <<s, c0, bad, l_in, l8, l8_in, gs, gs_in, stat, seen,
                 pure_vars, calls>>

\* an observation of the cell at the address a
Observe(a) ==
  /\ op # "new"
  /\ a \in 1..Len(cells)
  /\ cells[a].st = "Evaluated" \/ Cardinality(Forced(heap)) < MaxForced
  /\ \E r \in {deref(s, heap, a)} :
       /\ seen' = <<a, r.v>>
       /\ cells' = r.h.cells /\ runs' = r.h.runs /\ built' = r.h.built
  /\ op' = "deref"
  /\ UNCHANGED <<s, c0, bad, l, l_in, l8, l8_in, gs, gs_in, stat, pure_vars,
                 calls>>

NextRc ==
  \/ \E c \in Starts(s) : BuildGraph8Rc(c)
  \/ \E b \in Bads(s) : Cl8BadConfRc(b)
  \/ PruneGraph8Rc
  \/ \E a \in 1..Len(cells) : Observe(a)

Spec == Init /\ [][Next]_vars

SpecRc == InitRc /\ [][NextRc]_vars

\* a driver that was called runs on
SpecLoop == Init /\ [][NextLoop]_vars /\ WF_vars(LoopCall)

SpecCart == InitCart /\ [][NextCart]_vars

SpecFold == InitFold /\ [][NextFold]_vars

SpecLG == InitLG /\ [][NextLG]_vars

(***************************************************************************)
(* Properties.                                                             *)
(***************************************************************************)
Min(S) == CHOOSE x \in S : \A y \in S : x <= y

SizesOf(g) == {graph_size(g[i]) : i \in 1..Len(g)}

\* C1: unrolling the lazy graph of lazy_mrsc gives the list of graphs of
\* naive_mrsc, the same graphs in the same order.
Thm_C1 ==
  (op = "unroll" /\ l_in = lazy_mrsc(s, c0)) => gs = naive_mrsc(s, c0)

Wit_C1 ==
  /\ op = "unroll" /\ l_in = lazy_mrsc(s, c0)
  /\ s.kind = "table"
  /\ Len(gs) >= 3
  /\ \E i \in 1..Len(gs) : graph_size(gs[i]) >= 4

\* C2: pruning the lazy infinite graph of build_graph8 gives the lazy graph
\* of lazy_mrsc, node by node.
Thm_C2 ==
  (op = "prune_graph8" /\ l8_in = build_graph8(s, c0)) => l = lazy_mrsc(s, c0)

Wit_C2 ==
  /\ op = "prune_graph8" /\ l8_in = build_graph8(s, c0)
  /\ l.tag = "Build"
  /\ \E i \in 1..Len(l.lss) : \E j \in 1..Len(l.lss[i]) :
       /\ l.lss[i][j].tag = "Build"
       /\ \E i2 \in 1..Len(l.lss[i][j].lss) :
            \E j2 \in 1..Len(l.lss[i][j].lss[i2]) :
              l.lss[i][j].lss[i2][j2].tag = "Empty"

\* C3: cl_min_size leaves exactly one graph, of the minimal size among the
\* graphs of the input, when the input has graphs, and none when it has none.
Thm_C3 ==
  op = "cl_min_size" =>
    LET u == unroll(l_in)
        m == unroll(l)
    IN  IF Len(u) > 0
        THEN Len(m) = 1 /\ graph_size(m[1]) = Min(SizesOf(u))
        ELSE Len(m) = 0

\* an input with graphs of several sizes and an alternative made void by an
\* Empty child
Wit_C3 ==
  /\ op = "cl_min_size"
  /\ Cardinality(SizesOf(unroll(l_in))) >= 2
  /\ l_in.tag = "Build"
  /\ \E i \in 1..Len(l_in.lss) : \E j \in 1..Len(l_in.lss[i]) :
       l_in.lss[i][j].tag = "Empty"

\* C4: every graph of cl_min_size(l) is a graph of l.
Thm_C4 ==
  op = "cl_min_size" =>
    LET u == unroll(l_in)
        m == unroll(l)
    IN  \A i \in 1..Len(m) : \E j \in 1..Len(u) : m[i] = u[j]

Wit_C4 ==
  /\ op = "cl_min_size"
  /\ Len(unroll(l)) = 1
  /\ Len(unroll(l_in)) >= 3
  /\ unroll(l)[1] # unroll(l_in)[1]

\* C5: the graphs of cl_empty(cl_bad_conf(bad, l)) are the graphs of l without
\* a bad configuration, in their order.
Thm_C5 ==
  op = "cl_empty_and_bad" => unroll(l) = fl_bad_conf(bad, unroll(l_in))

\* some graphs are removed and some are kept
Wit_C5 ==
  /\ op = "cl_empty_and_bad"
  /\ Len(unroll(l)) >= 1
  /\ Len(unroll(l)) < Len(unroll(l_in))

\* C6: cl_empty keeps the list of graphs.
Thm_C6 ==
  op = "cl_empty" => unroll(l) = unroll(l_in)

\* an alternative was dropped and graphs remain
Wit_C6 ==
  /\ op = "cl_empty"
  /\ l # l_in
  /\ Len(unroll(l)) >= 2

\* C7: cl_empty is idempotent.
Thm_C7 ==
  op = "cl_empty" => cl_empty(l) = l

\* the first application changed a nested graph
Wit_C7 ==
  /\ op = "cl_empty"
  /\ l # l_in
  /\ \E i \in 1..Len(l_in.lss) : \E j \in 1..Len(l_in.lss[i]) :
       l_in.lss[i][j].tag = "Build" /\ cl_empty(l_in.lss[i][j]) = empty

\* C8: size_unroll is the number of graphs and the sum of their sizes.
Thm_C8 ==
  op = "size_unroll" =>
    LET u == unroll(l)
    IN  stat = <<Len(u), vec_sum([i \in 1..Len(u) |-> graph_size(u[i])])>>

\* several alternatives, one with several children, one with an Empty child
Wit_C8 ==
  /\ op = "size_unroll"
  /\ l.tag = "Build" /\ Len(l.lss) >= 2
  /\ \E i \in 1..Len(l.lss) : Len(l.lss[i]) >= 2
  /\ \E i \in 1..Len(l.lss) : \E j \in 1..Len(l.lss[i]) :
       l.lss[i][j].tag = "Empty"
  /\ stat[2] >= 3

\* C9: length_unroll is the number of graphs.
Thm_C9 ==
  op = "length_unroll" => stat[1] = Len(unroll(l))

Wit_C9 ==
  /\ op = "length_unroll"
  /\ l.tag = "Build" /\ Len(l.lss) >= 2
  /\ \E i \in 1..Len(l.lss) : Len(l.lss[i]) = 0
  /\ stat[1] >= 3

\* C10: cleaning the pruned graph of bad configurations gives the same lazy
\* graph as pruning the cleaned lazy infinite graph.
Cex_C10 ==
  op = "prune_graph8" =>
    \A b \in Bads(s) :
      cl_bad_conf(b, l) = prune_graph8(s, cl8_bad_conf(b, l8_in))

\* the alternatives of lss with their minimal sizes, as sel_min_size_and
\* computes them
AltSizes(lss) == [i \in 1..Len(lss) |-> sel_min_size_and(lss[i])]

\* C11: when several alternatives of a Build node have the same minimal finite
\* size, cl_min_size keeps the first of them: the result is Build(c, [ls'])
\* with ls' the cleaned form of the earliest alternative of minimal size.
Cex_C11 ==
  (op = "cl_min_size" /\ l_in.tag = "Build" /\ l.tag = "Build") =>
    LET ks == AltSizes(l_in.lss)
        m == Min({ks[i][1] : i \in 1..Len(ks)})
        first == Min({i \in 1..Len(ks) : ks[i][1] = m})
    IN  l = build(l_in.c, <<ks[first][2]>>)

RECURSIVE has_empty_forth(_)
\* the graph has a Forth node with an empty list of children
has_empty_forth(g) ==
  /\ g.tag = "Forth"
  /\ \/ Len(g.gs) = 0
     \/ \E i \in 1..Len(g.gs) : has_empty_forth(g.gs[i])

has_empty_alt(css) == \E i \in 1..Len(css) : Len(css[i]) = 0

RECURSIVE forths_developed(_, _)
\* every Forth node of the graph has a configuration with alternatives, and
\* every Forth node without children one with an empty alternative
forths_developed(w, g) ==
  g.tag = "Forth" =>
    /\ Len(develop(w, g.c)) > 0
    /\ Len(g.gs) = 0 => has_empty_alt(develop(w, g.c))
    /\ \A i \in 1..Len(g.gs) : forths_developed(w, g.gs[i])

\* C12: no graph returned by naive_mrsc has a Forth node with an empty list
\* of children, whatever develop returns.
Cex_C12 ==
  op = "naive_mrsc" => \A i \in 1..Len(gs) : ~has_empty_forth(gs[i])

\* C12 as amended: a Forth node without children occurs only where develop
\* returned an empty alternative for its configuration, and does occur at the
\* root when develop(c0) has one and the empty history is not dangerous; a
\* configuration for which develop returns no alternative is no Forth node.
Thm_C12 ==
  op = "naive_mrsc" =>
    /\ \A i \in 1..Len(gs) : forths_developed(s, gs[i])
    /\ (has_empty_alt(develop(s, c0)) /\ ~is_dangerous(s, HistoryNew)) =>
         \E i \in 1..Len(gs) : gs[i] = forth(c0, <<>>)
    /\ Len(develop(s, c0)) = 0 => gs = <<>>

\* a counters world at a configuration where no rule is enabled
Wit_C12 ==
  /\ op = "naive_mrsc" /\ s.kind = "counters"
  /\ counters_drive(c0) = <<>>
  /\ Len(gs) >= 2
  /\ \E i \in 1..Len(gs) : gs[i] = forth(c0, <<>>)

RECURSIVE LenProduct(_)
\* the product of the lengths of the lists
LenProduct(lists) ==
  IF Len(lists) = 0 THEN 1 ELSE Len(Head(lists)) * LenProduct(Tail(lists))

\* the index in the i-th list of the k-th index vector, counted from 0, when
\* the rightmost index varies fastest
IndexAt(lists, k, i) ==
  ((k - 1) \div LenProduct(SubSeq(lists, i + 1, Len(lists)))) % Len(lists[i])

\* C13: cartesian(xss) is the list of all tuples taking one element of every
\* list, each once, in the lexicographic order of the index vectors with the
\* rightmost index varying fastest; cartesian([]) is [[]], and the result is
\* [] when some list is empty.
Thm_C13 ==
  op = "cartesian" =>
    /\ Len(cart_res) = LenProduct(cart_xss)
    /\ \A k \in 1..Len(cart_res) :
         /\ Len(cart_res[k]) = Len(cart_xss)
         /\ \A i \in 1..Len(cart_xss) :
              cart_res[k][i] = cart_xss[i][IndexAt(cart_xss, k, i) + 1]
    /\ \A k1, k2 \in 1..Len(cart_res) : k1 # k2 => cart_res[k1] # cart_res[k2]
    /\ Len(cart_xss) = 0 => cart_res = << <<>> >>
    /\ (\E i \in 1..Len(cart_xss) : Len(cart_xss[i]) = 0) => cart_res = <<>>

\* the lists of test_cartesian: [1, 2], [10, 20, 30], [100, 200]
Wit_C13 ==
  /\ op = "cartesian"
  /\ cart_xss = << <<1, 2>>, <<10, 20, 30>>, <<100, 200>> >>
  /\ Len(cart_res) = 12
  /\ cart_res[1] = <<1, 10, 100>> /\ cart_res[2] = <<1, 10, 200>>
  /\ cart_res[12] = <<2, 30, 200>>

\* the N of the whistle: is_dangerous holds of every history longer than N
WhistleBound(w) ==
  CASE w.kind = "mock" -> 3
    [] w.kind = "table" -> w.whistle
    [] w.kind = "counters" -> w.max_depth - 1

RECURSIVE build_depth(_)
\* the largest number of Build nodes on a path of the lazy graph
build_depth(lg) ==
  IF lg.tag # "Build" THEN 0
  ELSE LET ls == concat(lg.lss)
           ds == {build_depth(ls[j]) : j \in 1..Len(ls)} \cup {0}
       IN  1 + CHOOSE d \in ds : \A e \in ds : e <= d

RECURSIVE paths_end(_, _, _)
\* no Build node stands where the history is dangerous or its configuration
\* folds to the history
paths_end(w, h, lg) ==
  lg.tag = "Build" =>
    /\ ~is_dangerous(w, h)
    /\ ~is_foldable_to_history(w, lg.c, h)
    /\ \A i \in 1..Len(lg.lss) : \A j \in 1..Len(lg.lss[i]) :
         paths_end(w, HistoryCons(h, lg.c), lg.lss[i][j])

\* the whistle blows on every history longer than N that the loop meets, and
\* no call has a history longer than N + 1
CallsBounded ==
  \A k \in 1..Len(calls) :
    /\ HistoryLength(calls[k][1]) <= WhistleBound(s) + 1
    /\ HistoryLength(calls[k][1]) > WhistleBound(s) =>
         is_dangerous(s, calls[k][1])

\* the lazy graph returned has no Build node at or after a dangerous history
\* or a fold, and so at most N + 1 Build nodes on a path
PathsBounded ==
  op = "lazy_mrsc" =>
    /\ paths_end(s, HistoryNew, l)
    /\ build_depth(l) <= WhistleBound(s) + 1

\* the largest number of configurations develop returns for a configuration
Branching(w) ==
  CASE w.kind = "mock" -> 4
    [] w.kind = "table" ->
         LET ks == {kids_total(w.dev[c]) : c \in Conf}
         IN  CHOOSE k \in ks : \A j \in ks : j <= k
    [] w.kind = "counters" -> 5

RECURSIVE TreeBound(_, _)
\* a bound on the number of calls a call with a history of length n makes,
\* itself included: beyond N the whistle blows and the call returns at once
TreeBound(w, n) ==
  IF n > WhistleBound(w) THEN 1 ELSE 1 + Branching(w) * TreeBound(w, n + 1)

\* a bound on the number of calls the driver has still to make
CallsLeft ==
  vec_sum([k \in 1..Len(calls) |-> TreeBound(s, HistoryLength(calls[k][1]))])

\* C14: driving terminates because of the whistle: while a driver runs it has
\* a call to make and every call lowers the bound on the calls left, so the
\* driver returns; and every path of the lazy graph ends at or before the
\* first node whose history is dangerous or to which the configuration folds,
\* with at most N + 1 Build nodes.
Thm_C14 ==
  /\ [](CallsBounded /\ PathsBounded)
  /\ [](op \in DriverLoops => calls # <<>>)
  /\ [][(op \in DriverLoops) => (CallsLeft > CallsLeft')]_vars

\* a counters world stopped by max_depth alone: a path of max_depth Build nodes
Wit_C14 ==
  /\ op = "lazy_mrsc" /\ s.kind = "counters"
  /\ s.max_depth >= 2
  /\ build_depth(l) = s.max_depth

\* C16: prune is prune_graph8 after cl8_empty; at a Build8 node that is not
\* dangerous it keeps the alternatives without an Empty8 child, and its graphs
\* are the graphs of prune_graph8.
Thm_C16 ==
  op = "prune" =>
    /\ l = prune_graph8(s, cl8_empty(l8_in))
    /\ unroll(l) = unroll(prune_graph8(s, l8_in))
    /\ (l8_in.tag = "Build8" /\ ~is_dangerous(s, HistoryNew)) =>
         /\ l.tag = "Build" /\ l.c = l8_in.c
         /\ Len(l.lss) = Len(without_empty8(force(s, l8_in.l8ss)))

\* an alternative with an Empty8 child was dropped at the root, graphs remain
Wit_C16 ==
  /\ op = "prune"
  /\ l8_in.tag = "Build8" /\ l.tag = "Build"
  /\ Len(l.lss) < Len(force(s, l8_in.l8ss))
  /\ Len(unroll(l)) >= 1

RECURSIVE graph_in_order(_, _, _, _)
\* the graph g stands for the configuration c met with the history h: a Back
\* leaf where c folds to h, whatever the whistle says, and a Forth node over
\* one alternative of develop(c) where c does not fold and h is not dangerous
graph_in_order(w, h, c, g) ==
  /\ g.c = c
  /\ g.tag = "Back" <=> is_foldable_to_history(w, c, h)
  /\ g.tag = "Forth" =>
       /\ ~is_dangerous(w, h)
       /\ \E i \in 1..Len(develop(w, c)) :
            /\ Len(develop(w, c)[i]) = Len(g.gs)
            /\ \A j \in 1..Len(g.gs) :
                 graph_in_order(w, HistoryCons(h, c), develop(w, c)[i][j],
                                g.gs[j])

RECURSIVE graphs_in_order(_, _, _)
\* how many graphs stand for the configuration c met with the history h: one
\* where c folds to h, whatever the whistle says, none where c does not fold
\* and h is dangerous, and otherwise the sum over the alternatives of
\* develop(c) of the product over the alternative's configurations
graphs_in_order(w, h, c) ==
  IF is_foldable_to_history(w, c, h) THEN 1
  ELSE IF is_dangerous(w, h) THEN 0
  ELSE LET css == develop(w, c)
           h1 == HistoryCons(h, c)
           prod[i \in 1..Len(css), j \in 0..MaxTuple + MaxKids] ==
             IF j = 0 \/ j > Len(css[i]) THEN 1
             ELSE graphs_in_order(w, h1, css[i][j]) * prod[i, j - 1]
           sum[i \in 0..Len(css)] ==
             IF i = 0 THEN 0 ELSE prod[i, Len(css[i])] + sum[i - 1]
       IN  sum[Len(css)]

RECURSIVE lazy_in_order(_, _, _, _)
\* the lazy graph lg stands for the configuration c met with the history h:
\* Stop where c folds to h, whatever the whistle says; Empty where c does not
\* fold and h is dangerous; a Build node over develop(c) otherwise
lazy_in_order(w, h, c, lg) ==
  IF is_foldable_to_history(w, c, h) THEN lg = stop(c)
  ELSE IF is_dangerous(w, h) THEN lg = empty
  ELSE /\ lg.tag = "Build" /\ lg.c = c
       /\ Len(lg.lss) = Len(develop(w, c))
       /\ \A i \in 1..Len(lg.lss) :
            /\ Len(lg.lss[i]) = Len(develop(w, c)[i])
            /\ \A j \in 1..Len(lg.lss[i]) :
                 lazy_in_order(w, HistoryCons(h, c), develop(w, c)[i][j],
                               lg.lss[i][j])

RECURSIVE lazy8_in_order(_, _, _, _)
\* the same of a lazy infinite graph, whose children are read from its cell
lazy8_in_order(w, h, c, lg8) ==
  IF is_foldable_to_history(w, c, h) THEN lg8 = stop8(c)
  ELSE IF is_dangerous(w, h) THEN lg8 = empty8
  ELSE /\ lg8.tag = "Build8" /\ lg8.c = c
       /\ LET lss == force(w, lg8.l8ss)
          IN  /\ Len(lss) = Len(develop(w, c))
              /\ \A i \in 1..Len(lss) :
                   /\ Len(lss[i]) = Len(develop(w, c)[i])
                   /\ \A j \in 1..Len(lss[i]) :
                        lazy8_in_order(w, HistoryCons(h, c),
                                       develop(w, c)[i][j], lss[i][j])

RECURSIVE fold_at_whistle(_, _, _)
\* the lazy graph has a Stop leaf at a dangerous history
fold_at_whistle(w, h, lg) ==
  \/ lg.tag = "Stop" /\ is_dangerous(w, h)
  \/ /\ lg.tag = "Build"
     /\ \E i \in 1..Len(lg.lss) : \E j \in 1..Len(lg.lss[i]) :
          fold_at_whistle(w, HistoryCons(h, lg.c), lg.lss[i][j])

RECURSIVE backs_fold(_, _, _)
\* every Back leaf of g folds to the configuration of a node above it, anc
\* being the configurations of the Forth nodes above g
backs_fold(w, anc, g) ==
  CASE g.tag = "Back" ->
         \E k \in 1..Len(anc) : is_foldable_to(w, g.c, anc[k])
    [] g.tag = "Forth" ->
         \A i \in 1..Len(g.gs) : backs_fold(w, <<g.c>> \o anc, g.gs[i])

RECURSIVE stops_fold(_, _, _)
\* the same of the Stop nodes of a lazy graph under its Build nodes
stops_fold(w, anc, lg) ==
  CASE lg.tag = "Empty" -> TRUE
    [] lg.tag = "Stop" ->
         \E k \in 1..Len(anc) : is_foldable_to(w, lg.c, anc[k])
    [] lg.tag = "Build" ->
         \A i \in 1..Len(lg.lss) : \A j \in 1..Len(lg.lss[i]) :
           stops_fold(w, <<lg.c>> \o anc, lg.lss[i][j])

RECURSIVE back_depth(_)
\* the depth of the deepest Back leaf of g, 0 when it has none
back_depth(g) ==
  IF g.tag = "Back" THEN 1
  ELSE LET ds == {back_depth(g.gs[i]) : i \in 1..Len(g.gs)} \ {0}
       IN  IF ds = {} THEN 0
           ELSE 1 + (CHOOSE d \in ds : \A e \in ds : e <= d)

\* C18: every Back leaf of a graph of naive_mrsc(s, c0), and every Stop node
\* of lazy_mrsc(s, c0), has a proper ancestor whose configuration it folds
\* to; the root is never such a leaf.
Thm_C18 ==
  /\ op = "naive_mrsc" =>
       \A k \in 1..Len(gs) :
         gs[k].tag # "Back" /\ backs_fold(s, <<>>, gs[k])
  /\ op = "lazy_mrsc" => l.tag # "Stop" /\ stops_fold(s, <<>>, l)

\* a residual graph with a Back leaf two or more steps under the root
Wit_C18 ==
  /\ op = "naive_mrsc"
  /\ \E k \in 1..Len(gs) : back_depth(gs[k]) >= 3

\* C19: cl8_bad_conf follows cl_bad_conf case by case: Empty8 gives Empty8;
\* Stop8(c) gives Empty8 if bad(c) and Stop8(c) otherwise; Build8(c, thunk)
\* gives Empty8 if bad(c) and otherwise a Build8 of c whose thunk yields
\* cl8_bad_conf of every child of every alternative, in the same order.
Cex_C19 ==
  op = "cl8_bad_conf" =>
    CASE l8_in.tag = "Empty8" -> l8 = empty8
      [] l8_in.tag = "Stop8" ->
           l8 = IF l8_in.c \in bad THEN empty8 ELSE stop8(l8_in.c)
      [] l8_in.tag = "Build8" ->
           IF l8_in.c \in bad THEN l8 = empty8
           ELSE /\ l8.tag = "Build8" /\ l8.c = l8_in.c
                /\ LET lss == force(s, l8_in.l8ss)
                   IN  force(s, l8.l8ss) =
                         [i \in 1..Len(lss) |->
                            [j \in 1..Len(lss[i]) |->
                               cl8_bad_conf(bad, lss[i][j])]]

\* the closure made with a cell has run at most once, and has run exactly when
\* that cell is evaluated
CellsOnce ==
  \A a \in 1..Len(cells) :
    /\ runs[a] <= 1
    /\ cells[a].st = "Evaluated" <=> runs[a] = 1

\* an evaluated cell stays evaluated, with the value it has
CellsKeep ==
  \A a \in 1..Len(cells) :
    cells[a].st = "Evaluated" =>
      Len(cells') >= a /\ cells'[a] = cells[a] /\ runs'[a] = runs[a]

\* an observation gives the value the cell holds after it, and the value the
\* cell held before it, without running a closure, when it was evaluated
ObserveSame ==
  op' = "deref" =>
    /\ cells'[seen'[1]].st = "Evaluated"
    /\ seen'[2] = cells'[seen'[1]].val
    /\ (seen'[1] <= Len(cells) /\ cells[seen'[1]].st = "Evaluated") =>
         seen'[2] = cells[seen'[1]].val /\ cells' = cells /\ runs' = runs

\* C15: the thunk of a Build8 node is evaluated at most once, whoever observes
\* the node and however often: the producer runs on the first observation
\* only, the cell goes from Unevaluated to Evaluated(v) once and never back,
\* and every later observation returns the same v.
Thm_C15 ==
  /\ []CellsOnce
  /\ [][CellsKeep /\ ObserveSame]_vars

\* the cell of the graph's root, observed by the client after prune_graph8
\* and after the thunk of the cleaned root, which reads it, was forced
Wit_C15 ==
  /\ op = "deref"
  /\ l.tag = "Build"
  /\ l8.tag = "Build8" /\ l8 # l8_in
  /\ cells[l8.l8ss].st = "Evaluated"
  /\ seen[1] = l8_in.l8ss
  /\ Len(seen[2]) > 0

\* Build8 nodes among the children of a list of alternatives
build8_kids(lss) ==
  LET ls == concat(lss)
  IN  Cardinality({k \in 1..Len(ls) : ls[k].tag = "Build8"})

RECURSIVE EvaluatedKids(_, _)
\* the children (all, or the Build8 nodes only) held by the evaluated cells
\* among the first a
EvaluatedKids(only_build8, a) ==
  IF a = 0 THEN 0
  ELSE EvaluatedKids(only_build8, a - 1)
         + (IF cells[a].st # "Evaluated" THEN 0
            ELSE IF only_build8 THEN build8_kids(cells[a].val)
            ELSE kids_total(cells[a].val))

\* the roots the client holds: the graph of build_graph8 and the cleaned one
Roots == IF op = "new" THEN {} ELSE {l8, l8_in}

\* the nodes built are the roots and the children of the nodes whose thunk
\* was forced, and so are the cells
NodesOnDemand ==
  /\ built = Cardinality(Roots) + EvaluatedKids(FALSE, Len(cells))
  /\ Len(cells) = Cardinality({g \in Roots : g.tag = "Build8"})
                    + EvaluatedKids(TRUE, Len(cells))

\* build_graph8 and cl8_bad_conf construct one node, with at most one cell,
\* not evaluated, and evaluate no cell
ConstructsRoot ==
  op' \in {"build_graph8", "cl8_bad_conf"} =>
    /\ built' = built + 1
    /\ Len(cells') <= Len(cells) + 1
    /\ \A a \in 1..Len(cells') :
         IF a <= Len(cells) THEN cells'[a] = cells[a]
         ELSE cells'[a].st = "Unevaluated"

\* a dereference evaluates the cell it is made on and, for the cell of a
\* cleaned node, the cell of the node it cleans; the nodes it builds are the
\* children these cells hold, with cells not evaluated
ForcesDirect ==
  op' = "deref" =>
    LET a == seen'[1]
        own == IF cells[a].st = "Evaluated" THEN {}
               ELSE IF cells[a].thunk.kind = "cl8_bad_conf"
                    THEN {a, cells[a].thunk.l8ss}
                    ELSE {a}
    IN  /\ \A b \in 1..Len(cells) : b \notin own => cells'[b] = cells[b]
        /\ \A b \in Len(cells) + 1..Len(cells') :
             cells'[b].st = "Unevaluated"

\* C20: a lazy infinite graph is constructed on demand: build_graph8 and
\* cl8_bad_conf return after constructing the root node only, no child of a
\* Build8 node is built and the thunk of the input is not forced before the
\* node's own thunk is forced, and forcing it builds the direct children only.
Thm_C20 ==
  /\ []NodesOnDemand
  /\ [][ConstructsRoot /\ ForcesDirect]_vars

\* the thunk of the cleaned root was forced, and with it the thunk of the
\* root it cleans: their children are there, the children's thunks are not
\* forced
Wit_C20 ==
  /\ op = "deref"
  /\ l8.tag = "Build8" /\ l8 # l8_in
  /\ seen[1] = l8.l8ss
  /\ Forced(heap) = {l8.l8ss, l8_in.l8ss}
  /\ build8_kids(seen[2]) >= 2
  /\ Len(cells) >= 6

RECURSIVE build_keeps_order(_, _, _)
\* every Build node of lg, met with the history h, has the alternatives of
\* develop(c) and their configurations, one child each, in their order, the
\* child being the lazy graph of the configuration under cons(c, h)
build_keeps_order(w, h, lg) ==
  lg.tag = "Build" =>
    LET css == develop(w, lg.c)
        h1 == HistoryCons(h, lg.c)
    IN  /\ Len(lg.lss) = Len(css)
        /\ \A i \in 1..Len(lg.lss) :
             /\ Len(lg.lss[i]) = Len(css[i])
             /\ \A j \in 1..Len(lg.lss[i]) :
                  /\ lg.lss[i][j].tag # "Empty" => lg.lss[i][j].c = css[i][j]
                  /\ lg.lss[i][j] = lazy_mrsc_loop(w, h1, css[i][j])
                  /\ build_keeps_order(w, h1, lg.lss[i][j])

RECURSIVE build8_keeps_order(_, _, _)
\* the same of the Build8 nodes of a lazy infinite graph, once forced
build8_keeps_order(w, h, lg8) ==
  lg8.tag = "Build8" =>
    LET css == develop(w, lg8.c)
        h1 == HistoryCons(h, lg8.c)
        lss == force(w, lg8.l8ss)
    IN  /\ Len(lss) = Len(css)
        /\ \A i \in 1..Len(lss) :
             /\ Len(lss[i]) = Len(css[i])
             /\ \A j \in 1..Len(lss[i]) :
                  /\ lss[i][j].tag # "Empty8" => lss[i][j].c = css[i][j]
                  /\ lss[i][j] = build_graph8_loop(w, h1, css[i][j])
                  /\ build8_keeps_order(w, h1, lss[i][j])

\* C21: the drivers keep the order of the world: every Build node of
\* lazy_mrsc(s, c0), and every forced Build8 node of build_graph8(s, c0), has
\* one alternative per element of develop(c) and one child per configuration
\* of it, in the same order, the j-th child being the result of driving the
\* j-th configuration under the history cons(c, h).
Thm_C21 ==
  /\ op = "lazy_mrsc" => build_keeps_order(s, HistoryNew, l)
  /\ op = "build_graph8" => build8_keeps_order(s, HistoryNew, l8)

\* a Build node with two alternatives that differ, one of them with two
\* children of different configurations
Wit_C21 ==
  /\ op = "lazy_mrsc" /\ l.tag = "Build"
  /\ \E i1, i2 \in 1..Len(l.lss) : l.lss[i1] # l.lss[i2]
  /\ \E i \in 1..Len(l.lss) :
       /\ Len(l.lss[i]) >= 2
       /\ l.lss[i][1].tag # "Empty" /\ l.lss[i][2].tag # "Empty"
       /\ l.lss[i][1].c # l.lss[i][2].c

\* x is in y as the counters world has it: a number is in itself, anything is
\* in omega, omega is in no number
InNW(x, y) == y = W \/ (x # W /\ x.i = y.i)

\* C22: in the counters world is_foldable_to(c1, c2) on configurations of the
\* same length holds exactly when every component of c1 is in the component
\* of c2 at its place; so it is reflexive, and a configuration folds to each
\* of the generalizations rebuild returns for it.
Thm_C22 ==
  op = "is_foldable_to" =>
    /\ Len(fold_c1) = Len(fold_c2) =>
         (fold_res <=>
            \A k \in 1..Len(fold_c1) : InNW(fold_c1[k], fold_c2[k]))
    /\ fold_c1 = fold_c2 => fold_res
    /\ (\E a \in 1..Len(counters_rebuild(fold_c1)) :
          counters_rebuild(fold_c1)[a] = <<fold_c2>>) => fold_res

\* a configuration with numbers and an omega, folded to a generalization
\* rebuild returns for it
Wit_C22 ==
  /\ op = "is_foldable_to"
  /\ fold_c1 = <<N(1), W, N(0)>>
  /\ fold_c2 = <<W, W, N(0)>>
  /\ fold_res

RECURSIVE no_empty_inside(_)
\* lg has no Empty node and no Build node without alternatives
no_empty_inside(lg) ==
  CASE lg.tag = "Empty" -> FALSE
    [] lg.tag = "Stop" -> TRUE
    [] lg.tag = "Build" ->
         /\ Len(lg.lss) > 0
         /\ \A i \in 1..Len(lg.lss) : \A j \in 1..Len(lg.lss[i]) :
              no_empty_inside(lg.lss[i][j])

\* C23: cl_empty decides emptiness: cl_empty(l) is the node Empty exactly when
\* unroll(l) is empty, and when it is not Empty it has no Empty node anywhere
\* and no Build node with an empty list of alternatives.
Thm_C23 ==
  op = "cl_empty" =>
    /\ l = empty <=> unroll(l_in) = <<>>
    /\ l # empty => no_empty_inside(l)

\* a Build node that lost an alternative and kept one with a Build child
Wit_C23 ==
  /\ op = "cl_empty"
  /\ l.tag = "Build" /\ l_in.tag = "Build"
  /\ Len(l.lss) < Len(l_in.lss)
  /\ \E i \in 1..Len(l.lss) : \E j \in 1..Len(l.lss[i]) :
       l.lss[i][j].tag = "Build"

RECURSIVE forths_sound(_, _, _)
\* no Forth node of g folds to the configuration of a node above it or stands
\* under a dangerous history, h being the configurations of the nodes above
\* g, the nearest first
forths_sound(w, h, g) ==
  g.tag = "Forth" =>
    /\ \A k \in 1..Len(h) : ~is_foldable_to(w, g.c, h[k])
    /\ ~is_dangerous(w, h)
    /\ \A i \in 1..Len(g.gs) : forths_sound(w, HistoryCons(h, g.c), g.gs[i])

RECURSIVE builds_sound(_, _, _)
\* the same of the Build nodes of a lazy graph
builds_sound(w, h, lg) ==
  lg.tag = "Build" =>
    /\ \A k \in 1..Len(h) : ~is_foldable_to(w, lg.c, h[k])
    /\ ~is_dangerous(w, h)
    /\ \A i \in 1..Len(lg.lss) : \A j \in 1..Len(lg.lss[i]) :
         builds_sound(w, HistoryCons(h, lg.c), lg.lss[i][j])

\* C24: no fold is missed and no node is driven past the whistle: in every
\* graph of naive_mrsc(s, c0) and in lazy_mrsc(s, c0), a Forth / Build node
\* with the configuration c and the list h of the configurations above it
\* has is_foldable_to(c, c') false for every c' of h and is_dangerous(h)
\* false.
Thm_C24 ==
  /\ op = "naive_mrsc" =>
       \A k \in 1..Len(gs) : forths_sound(s, HistoryNew, gs[k])
  /\ op = "lazy_mrsc" => builds_sound(s, HistoryNew, l)

\* a residual graph with a Forth node two steps under the root and a Back
\* leaf under it
Wit_C24 ==
  /\ op = "naive_mrsc"
  /\ \E k \in 1..Len(gs) :
       /\ gs[k].tag = "Forth"
       /\ \E i \in 1..Len(gs[k].gs) :
            /\ gs[k].gs[i].tag = "Forth"
            /\ \E j \in 1..Len(gs[k].gs[i].gs) :
                 /\ gs[k].gs[i].gs[j].tag = "Forth"
                 /\ \E m \in 1..Len(gs[k].gs[i].gs[j].gs) :
                      gs[k].gs[i].gs[j].gs[m].tag = "Back"

====
